---- MODULE Spec2Model ----
(***************************************************************************)
(* Model of atom/renderer/atom_sandboxed_renderer_client.cc: the binding   *)
(* registry and module cache (GetModuleCache, GetBinding), the process.env *)
(* interceptors (EnvGetter, EnvSetter, EnvQuery, EnvDeleter,               *)
(* EnvEnumerator) and the lifecycle hooks that deliver onMessage / onExit. *)
(*                                                                         *)
(* The file is compiled either with __POSIX__ or for _WIN32; `platform`    *)
(* is the build and never changes.  Strings are sequences of characters;   *)
(* NUL is the zero character that ends a C string.                         *)
(***************************************************************************)
EXTENDS Integers, Sequences, FiniteSets, TLC

VARIABLES
    platform,        \* "posix" or "win32": the branch of #ifdef __POSIX__
    environ,         \* the OS environment block
    slots,           \* POSIX: pointers in the array environ points to, the
                     \* terminating NULL and those behind it included
    last,            \* the call on binding.env that returned last, with
                     \* its result
    follows,         \* "Set" or "Delete" when the call that returned before
                     \* `last` was that operation on the key of `last`
    enums,           \* EnvEnumerator calls inside the push function
    preload_script,  \* value of the --preload switch, empty when not given
    ctxState,        \* per script context: "none", "created", "released"
    mainFrame,       \* per script context: render_frame->IsMainFrame()
    bound,           \* per script context: a binding object was initialized
    slot,            \* per script context: private "ipcNative" of its global
    scopes,          \* stack of hooks in progress, each with its Context::Scope
    calls,           \* per script context: the calls into its script, in order
    hookLog,         \* per frame: the hook calls the host made for it, in order
    crashed,         \* the renderer process died
    cache,           \* per script context: hidden "native-module-cache"
    nextObj,         \* per context: objects made by v8::Object::New for exports
    stack,           \* GetBinding calls inside a module's register function
    registered,      \* per context and module: calls of its register function
    first,           \* per context and resolvable key: result of the first get
    lastGet          \* the get call that returned last

envVars == <<platform, environ, slots, last, follows, enums>>

hookVars ==
    <<preload_script, ctxState, mainFrame, bound, slot, scopes, calls,
      hookLog, crashed>>

bindVars == <<cache, nextObj, stack, registered, first, lastGet>>

vars == <<envVars, hookVars, bindVars>>

(***************************************************************************)
(* Bounds                                                                  *)
(***************************************************************************)
\* longest environment block the process starts with
MaxInitEnv == 2

\* script contexts (one per render frame)
NumCtx == 2

\* deepest nesting of get calls (a get made while a module registers)
MaxDepth == 2

\* IPC messages that arrive
MaxArrivals == 2

\* longest environment block that is enumerated
MaxEnumEnv == 17

\* deepest nesting of enumerations (one started while another one is inside
\* the push function)
MaxEnumDepth == 1

(***************************************************************************)
(* Characters and strings                                                  *)
(***************************************************************************)
NUL == "NUL"
EQ == "="

Min(S) == CHOOSE x \in S : \A y \in S : x <= y

Range(s) == {s[i] : i \in 1..Len(s)}

\* std::string::c_str() / base::string16::c_str() handed to a C API: the
\* callee reads up to the first zero character.
c_str(s) ==
    LET z == {i \in 1..Len(s) : s[i] = NUL}
    IN  IF z = {} THEN s ELSE SubSeq(s, 1, Min(z) - 1)

\* a v8::Name that is a Symbol, not a String
SymbolKey == <<"Symbol()">>

IsSymbol(property) == property = SymbolKey

IsString(property) == ~IsSymbol(property)

\* mate::V8ToString: the UTF-8 text of a v8 String, the empty string for a
\* value that is not a String.
V8ToString(value) == IF IsString(value) THEN value ELSE <<>>

StartsWithEq(s) == Len(s) > 0 /\ s[1] = EQ

Ctx == 1..NumCtx

\* script of context c is able to run
SandboxRuns(c) == ~crashed /\ ctxState[c] \in {"created", "releasing"}

\* some context has a binding object, whose env property script can use
BindingInUse == {c \in Ctx : SandboxRuns(c) /\ bound[c]} # {}

(***************************************************************************)
(* The operating system's environment table.  `environ` is the block in    *)
(* its native order, one "name=value" string per entry.                    *)
(***************************************************************************)
NotFound == [found |-> FALSE, val |-> <<>>]

Found(v) == [found |-> TRUE, val |-> v]

MakeEntry(name, val) == name \o <<EQ>> \o val

\* POSIX: an entry belongs to `name` when it starts with name followed by '='
PosixMatches(e, name) ==
    /\ Len(e) > Len(name)
    /\ SubSeq(e, 1, Len(name)) = name
    /\ e[Len(name) + 1] = EQ

PosixIndex(env, name) == {i \in 1..Len(env) : PosixMatches(env[i], name)}

\* getenv(3): NULL for the empty name, else the text after "name=" of the
\* first matching entry
getenv(env, name) ==
    IF name = <<>> \/ PosixIndex(env, name) = {}
    THEN NotFound
    ELSE LET e == env[Min(PosixIndex(env, name))]
         IN  Found(SubSeq(e, Len(name) + 2, Len(e)))

\* setenv(3) and unsetenv(3) fail with EINVAL, changing nothing, when the
\* name is empty or contains '='
PosixValidName(name) == name # <<>> /\ EQ \notin Range(name)

\* setenv(name, val, 1): overwrite the first matching entry in place, or
\* append a new entry to the block
setenv(env, name, val) ==
    IF ~PosixValidName(name) THEN env
    ELSE IF PosixIndex(env, name) = {} THEN Append(env, MakeEntry(name, val))
    ELSE [env EXCEPT ![Min(PosixIndex(env, name))] = MakeEntry(name, val)]

\* unsetenv(3): remove every matching entry, moving the entries behind it
\* and the terminating NULL down in the same array
unsetenv(env, name) ==
    IF ~PosixValidName(name) THEN env
    ELSE SelectSeq(env, LAMBDA e : ~PosixMatches(e, name))

\* Windows: the name of an entry ends at the first '=' after its first
\* character, so that "=C:=C:\dir" is the variable "=C:"
WinEqPos(e) ==
    LET p == {i \in 2..Len(e) : e[i] = EQ}
    IN  IF p = {} THEN 0 ELSE Min(p)

WinEntryName(e) == IF WinEqPos(e) = 0 THEN e ELSE SubSeq(e, 1, WinEqPos(e) - 1)

WinEntryValue(e) ==
    IF WinEqPos(e) = 0 THEN <<>> ELSE SubSeq(e, WinEqPos(e) + 1, Len(e))

WinIndex(env, name) ==
    {i \in 1..Len(env) : WinEqPos(env[i]) # 0 /\ WinEntryName(env[i]) = name}

WinLookup(env, name) ==
    IF name = <<>> \/ WinIndex(env, name) = {}
    THEN NotFound
    ELSE Found(WinEntryValue(env[Min(WinIndex(env, name))]))

ERROR_SUCCESS == 0
ERROR_ENVVAR_NOT_FOUND == 203

\* GetEnvironmentVariableW(name, buffer, size) after SetLastError(SUCCESS):
\* the value's length when it fits, the size needed (with its terminator)
\* when it does not, 0 and ERROR_ENVVAR_NOT_FOUND when there is no variable.
GetEnvironmentVariableW(env, name, size) ==
    LET r == WinLookup(env, name)
    IN  IF ~r.found
        THEN [result |-> 0, error |-> ERROR_ENVVAR_NOT_FOUND, buffer |-> <<>>]
        ELSE IF Len(r.val) < size
        THEN [result |-> Len(r.val), error |-> ERROR_SUCCESS, buffer |-> r.val]
        ELSE [result |-> Len(r.val) + 1, error |-> ERROR_SUCCESS,
              buffer |-> <<>>]

\* a name is rejected when empty or when it holds '=' after its first
\* character
WinValidName(name) ==
    name # <<>> /\ \A i \in 2..Len(name) : name[i] # EQ

NullPtr == <<"nullptr">>

\* SetEnvironmentVariableW(name, value): value nullptr deletes the variable,
\* any other value creates or overwrites it
SetEnvironmentVariableW(env, name, val) ==
    IF ~WinValidName(name) THEN env
    ELSE IF val = NullPtr
    THEN SelectSeq(env, LAMBDA e :
                     ~(WinEqPos(e) # 0 /\ WinEntryName(e) = name))
    ELSE IF WinIndex(env, name) = {} THEN Append(env, MakeEntry(name, val))
    ELSE [env EXCEPT ![Min(WinIndex(env, name))] = MakeEntry(name, val)]

(***************************************************************************)
(* The process.env interceptors.  Each returns what it left in             *)
(* info.GetReturnValue(): `Unset` when the handler set nothing, which      *)
(* makes V8 fall through to the object's ordinary behaviour.               *)
(***************************************************************************)
Unset == [kind |-> "unset", v |-> <<>>]

Undefined == [kind |-> "undefined", v |-> <<>>]

StringValue(s) == [kind |-> "string", v |-> s]

IntValue(n) == [kind |-> "integer", v |-> <<n>>]

BoolValue(b) == [kind |-> "boolean", v |-> <<b>>]

ArrayValue(a) == [kind |-> "array", v |-> a]

kBufferSize == 32767

\* v8::PropertyAttribute
ReadOnly == 1
DontEnum == 2
DontDelete == 4

\* mutant: a missing variable reported as the empty string
EnvGetter_MissingAsEmpty(plat, env, property) ==
    IF IsSymbol(property) THEN Undefined
    ELSE IF plat = "posix"
    THEN StringValue(getenv(env, c_str(V8ToString(property))).val)
    ELSE StringValue(GetEnvironmentVariableW(env, c_str(V8ToString(property)),
                                             kBufferSize).buffer)

EnvGetter(plat, env, property) ==
    IF IsSymbol(property) THEN Undefined
    ELSE IF plat = "posix"
    THEN LET val == getenv(env, c_str(V8ToString(property)))
         IN  IF val.found THEN StringValue(val.val) ELSE Unset
    ELSE LET r == GetEnvironmentVariableW(env, c_str(V8ToString(property)),
                                          kBufferSize)
         IN  IF (r.result > 0 \/ r.error = ERROR_SUCCESS)
                /\ r.result < kBufferSize
             THEN StringValue(r.buffer)
             ELSE Unset

\* the Windows guard of EnvSetter: key[0] != L'=' (key[0] of an empty
\* string16 is its terminator)
\* mutant: the guard left out
WinSetterForwards_Always(key) == TRUE

WinSetterForwards(key) == ~StartsWithEq(key)

\* mutant: an existing variable is not overwritten
EnvSetterEnv_NoOverwrite(plat, env, property, value) ==
    LET key == c_str(V8ToString(property))
        val == c_str(V8ToString(value))
    IN  IF (IF plat = "posix" THEN getenv(env, key).found
            ELSE WinLookup(env, key).found)
        THEN env
        ELSE IF plat = "posix" THEN setenv(env, key, val)
        ELSE IF ~StartsWithEq(key)
        THEN SetEnvironmentVariableW(env, key, val)
        ELSE env

\* the environment EnvSetter leaves behind
EnvSetterEnv(plat, env, property, value) ==
    LET key == c_str(V8ToString(property))
        val == c_str(V8ToString(value))
    IN  IF plat = "posix" THEN setenv(env, key, val)
        ELSE IF WinSetterForwards(key)
        THEN SetEnvironmentVariableW(env, key, val)
        ELSE env

\* the call EnvSetter makes to the OS: POSIX calls setenv for every key
\* (line 124), Windows calls SetEnvironmentVariableW behind its guard
EnvSetterCall(plat, property) ==
    IF plat = "posix" THEN "setenv"
    ELSE IF WinSetterForwards(c_str(V8ToString(property)))
    THEN "SetEnvironmentVariableW"
    ELSE "none"

\* the array environ points to when EnvSetter returns, having had n
\* pointers: setenv(3) puts a new entry into an array made for just the
\* entries and the terminating NULL; an entry that is overwritten stays
\* where it is
EnvSetterSlots(plat, env, n, property, value) ==
    IF plat = "posix"
       /\ Len(EnvSetterEnv(plat, env, property, value)) > Len(env)
    THEN Len(EnvSetterEnv(plat, env, property, value)) + 1
    ELSE n

\* Whether it worked or not, always return value.
EnvSetterResult(value) == [kind |-> "value", v |-> value]

\* mutant: the attribute flags of a hidden variable left out
EnvQueryRc_NoFlags(plat, env, property) ==
    IF ~IsString(property) THEN -1
    ELSE IF plat = "posix"
    THEN IF getenv(env, c_str(V8ToString(property))).found THEN 0 ELSE -1
    ELSE LET r == GetEnvironmentVariableW(env, c_str(V8ToString(property)), 0)
         IN  IF r.result > 0 \/ r.error = ERROR_SUCCESS THEN 0 ELSE -1

EnvQueryRc(plat, env, property) ==
    IF ~IsString(property) THEN -1
    ELSE IF plat = "posix"
    THEN IF getenv(env, c_str(V8ToString(property))).found THEN 0 ELSE -1
    ELSE LET key == c_str(V8ToString(property))
             r == GetEnvironmentVariableW(env, key, 0)
         IN  IF r.result > 0 \/ r.error = ERROR_SUCCESS
             THEN IF StartsWithEq(key)
                  THEN ReadOnly + DontDelete + DontEnum
                  ELSE 0
             ELSE -1

EnvQuery(plat, env, property) ==
    LET rc == EnvQueryRc(plat, env, property)
    IN  IF rc # -1 THEN IntValue(rc) ELSE Unset

\* mutant: the removal is not forwarded to the OS
EnvDeleterEnv_NoRemoval(plat, env, property) == env

\* the environment EnvDeleter leaves behind
EnvDeleterEnv(plat, env, property) ==
    IF IsString(property)
    THEN IF plat = "posix"
         THEN unsetenv(env, c_str(V8ToString(property)))
         ELSE SetEnvironmentVariableW(env, c_str(V8ToString(property)),
                                      NullPtr)
    ELSE env

\* the call EnvDeleter makes to the OS
EnvDeleterCall(plat, property) ==
    IF ~IsString(property) THEN "none"
    ELSE IF plat = "posix" THEN "unsetenv"
    ELSE "SetEnvironmentVariableW"

EnvDeleterResult == BoolValue(TRUE)

\* size of the argv buffer of EnvEnumerator
NODE_PUSH_VAL_TO_ARRAY_MAX == 8

EmptyHandle == <<"empty handle">>

EmptyArgv == [j \in 1..NODE_PUSH_VAL_TO_ARRAY_MAX |-> EmptyHandle]

\* env->push_values_to_array_function(): append argv[0..idx) to the array
PushValuesToArray(envarr, idx, argv) == envarr \o [j \in 1..idx |-> argv[j]]

\* strchr(var, '='): index of the first '=', 0 for none
strchr(var) ==
    LET p == {i \in 1..Len(var) : var[i] = EQ}
    IN  IF p = {} THEN 0 ELSE Min(p)

\* the text EnvEnumerator takes as the key of an entry
EntryKey(var) ==
    IF strchr(var) = 0 THEN var ELSE SubSeq(var, 1, strchr(var) - 1)

\* mutant: hidden entries are not skipped
SkipHidden_Never(plat, var) == FALSE

\* the Windows test for a hidden entry: *p == L'='
SkipHidden(plat, var) == plat = "win32" /\ StartsWithEq(var)

\* what an enumeration walked: the block when it was called, the entries
\* it read, in order, and whether the block was changed while it ran
NoWalk == [start |-> <<>>, read |-> <<>>, changed |-> FALSE]

\* mutant: the last entry is not counted
EnumEntry_OffByOne(plat, env) ==
    [size |-> Len(env) - 1, start |-> env, i |-> 1, idx |-> 0,
     argv |-> EmptyArgv, envarr |-> <<>>, read |-> <<>>, changed |-> FALSE,
     at |-> "loop"]

\* EnvEnumerator's locals on entry to the loop.  POSIX counts the entries
\* of environ once, before the loop (lines 193-195); Windows walks the copy
\* of the block that GetEnvironmentStringsW returned (line 216)
EnumEntry(plat, env) ==
    [size |-> Len(env), start |-> env, i |-> 1, idx |-> 0,
     argv |-> EmptyArgv, envarr |-> <<>>, read |-> <<>>, changed |-> FALSE,
     at |-> "loop"]

\* what environ[i] can be when i is outside the array environ points to and
\* the memory there holds a pointer that can be read: the empty string, an
\* entry the block has or had, or some other string ("?")
PastTheEnd(env, f) == {<<>>, <<"?">>} \cup Range(env) \cup Range(f.start)

\* the strings that the read of entry f.i (line 200, or *p on Windows) can
\* give.  POSIX reads environ[i] as it is now, against the size counted on
\* entry: from the terminating NULL to the end of the array, with n
\* pointers, there is no string but NULL; behind the array the read is
\* outside of environ
EnumRead(plat, env, n, f) ==
    IF plat = "win32" THEN {f.start[f.i]}
    ELSE IF f.i <= Len(env) THEN {env[f.i]}
    ELSE IF f.i <= n THEN {}
    ELSE PastTheEnd(env, f)

RECURSIVE EnumLoop(_, _, _, _)
\* the ways the loop can run from entry f.i on, each up to the next call of
\* the push function ("flush": the call at line 208/240, or at line 213/245
\* after the loop), to the end with an empty buffer ("end"), or to a fault
\* in strchr for an entry that environ no longer has ("fault")
EnumLoop(plat, env, n, f) ==
    LET Step(var) ==
            LET g == [f EXCEPT !.i = @ + 1, !.read = Append(@, var)]
            IN  IF SkipHidden(plat, var) THEN EnumLoop(plat, env, n, g)
                ELSE LET h == [g EXCEPT !.argv[f.idx + 1] = EntryKey(var),
                                        !.idx = @ + 1]
                     IN  IF h.idx >= NODE_PUSH_VAL_TO_ARRAY_MAX
                         THEN {[h EXCEPT !.at = "flush"]}
                         ELSE EnumLoop(plat, env, n, h)
    IN  IF f.i > f.size
        THEN IF f.idx > 0 THEN {[f EXCEPT !.at = "flush"]}
             ELSE {[f EXCEPT !.at = "end"]}
        ELSE (IF plat = "posix" /\ f.i > Len(env)
              THEN {[f EXCEPT !.at = "fault"]} ELSE {})
             \cup UNION {Step(var) : var \in EnumRead(plat, env, n, f)}

\* the push function has returned: the buffer is in the array, and idx = 0
AfterPush(f) ==
    [f EXCEPT !.envarr = PushValuesToArray(f.envarr, f.idx, f.argv),
              !.idx = 0, !.at = "loop"]

\* info.GetReturnValue().Set(envarr)
EnvEnumeratorResult(f) == ArrayValue(f.envarr)

(***************************************************************************)
(* Script in the sandbox using binding.env: every property access on the   *)
(* object runs one interceptor.  `last` is the call that returned last.    *)
(* EnvEnumerator calls the push function, which is script: while it runs,  *)
(* script may use binding.env again.                                       *)
(***************************************************************************)
EnvKeys ==
    { <<>>, <<"A">>, <<EQ, "A">>, <<"A", EQ>>, <<"A", NUL, "B">>, SymbolKey }

EnvValues == { <<>>, <<"x">>, <<EQ, "x">>, <<"x", NUL, "y">> }

\* entries a process may inherit; one starting with '=' is a hidden entry
InitEntries == { <<"A", EQ, "x">>, <<"B", EQ>>, <<EQ, "A", EQ, "h">> }

InitBlocks ==
    { b \in UNION {[1..n -> InitEntries] : n \in 0..MaxInitEnv} :
        \A i, j \in 1..Len(b) : i # j => b[i] # b[j] }

\* the longest value that fits EnvGetter's buffer, and the shortest that
\* does not
LongestValue ==
    SubSeq([i \in 1..(kBufferSize - 1) |-> "y"], 1, kBufferSize - 1)

SetGetKeys == { <<>>, <<"A">>, <<"A", EQ>> }

SetGetBlocks == { <<>>, << <<"A", EQ, "x">> >>, << <<"B", EQ>> >> }

SetGetValues ==
    { <<>>, <<"x">>, <<"x", NUL, "y">>, LongestValue,
      Append(LongestValue, "y") }

NoCall == [op |-> "none", key |-> <<>>, val |-> <<>>]

Call(op, key, val) == [op |-> op, key |-> key, val |-> val]

\* a call that has returned: its result, what it walked, and the call it
\* made to the OS to change the environment ("none" when it made none)
Done(call, ret, walk) ==
    [call |-> call, ret |-> ret, walk |-> walk, wrote |-> "none"]

\* what the call that returns now, on key k, follows
Follows(k) ==
    IF last.call.op \in {"Set", "Delete"} /\ last.call.key = k
    THEN last.call.op
    ELSE "none"

\* the enumerations inside the push function when a handler has changed
\* the block from env to env2
Changed(frames, env, env2) ==
    [j \in 1..Len(frames) |->
       [frames[j] EXCEPT !.changed = @ \/ env2 # env]]

Get(k) ==
    /\ BindingInUse
    /\ last' = Done(Call("Get", k, <<>>), EnvGetter(platform, environ, k),
                    NoWalk)
    /\ follows' = Follows(k)
    /\ UNCHANGED <<platform, environ, slots, enums>>
    /\ UNCHANGED <<hookVars, bindVars>>

Set(k, v) ==
    /\ BindingInUse
    /\ environ' = EnvSetterEnv(platform, environ, k, v)
    /\ slots' = EnvSetterSlots(platform, environ, slots, k, v)
    /\ last' = [Done(Call("Set", k, v), EnvSetterResult(v), NoWalk)
                   EXCEPT !.wrote = EnvSetterCall(platform, k)]
    /\ follows' = Follows(k)
    /\ enums' = Changed(enums, environ, environ')
    /\ UNCHANGED platform
    /\ UNCHANGED <<hookVars, bindVars>>

Query(k) ==
    /\ BindingInUse
    /\ last' = Done(Call("Query", k, <<>>), EnvQuery(platform, environ, k),
                    NoWalk)
    /\ follows' = Follows(k)
    /\ UNCHANGED <<platform, environ, slots, enums>>
    /\ UNCHANGED <<hookVars, bindVars>>

Delete(k) ==
    /\ BindingInUse
    /\ environ' = EnvDeleterEnv(platform, environ, k)
    /\ UNCHANGED slots
    /\ last' = [Done(Call("Delete", k, <<>>), EnvDeleterResult, NoWalk)
                   EXCEPT !.wrote = EnvDeleterCall(platform, k)]
    /\ follows' = Follows(k)
    /\ enums' = Changed(enums, environ, environ')
    /\ UNCHANGED platform
    /\ UNCHANGED <<hookVars, bindVars>>

\* EnvEnumerator returns the array
EnumerateReturn(f) ==
    /\ last' = Done(Call("Enumerate", <<>>, <<>>), EnvEnumeratorResult(f),
                    [start |-> f.start, read |-> f.read,
                     changed |-> f.changed])
    /\ follows' = "none"

\* EnvEnumerator is called: it runs up to its first call of the push
\* function, or returns the empty array for a block it takes no key from.
\* On Windows GetEnvironmentStringsW can fail, and EnvEnumerator then
\* returns without a result (lines 217-218)
Enumerate ==
    /\ BindingInUse
    /\ Len(enums) < MaxEnumDepth
    /\ \/ /\ platform = "win32"
          /\ last' = Done(Call("Enumerate", <<>>, <<>>), Unset, NoWalk)
          /\ follows' = "none"
          /\ UNCHANGED enums
       \/ \E f \in EnumLoop(platform, environ, slots,
                          EnumEntry(platform, environ)) :
            IF f.at = "end"
            THEN EnumerateReturn(f) /\ UNCHANGED enums
            ELSE enums' = Append(enums, f) /\ UNCHANGED <<last, follows>>
    /\ UNCHANGED <<platform, environ, slots>>
    /\ UNCHANGED <<hookVars, bindVars>>

\* the call of the push function by the innermost EnvEnumerator ends.  When
\* the function threw, ToLocalChecked() aborts the process (lines 208, 213,
\* 240, 245).  When it returned, EnvEnumerator runs on: to its next call of
\* the push function, to its return, or into a fault of strchr, which kills
\* the process
EnumerateContinue ==
    /\ BindingInUse
    /\ enums # <<>>
    /\ \E thrown \in BOOLEAN :
         IF thrown
         THEN /\ crashed' = TRUE
              /\ UNCHANGED <<last, follows, enums>>
         ELSE \E f \in EnumLoop(platform, environ, slots,
                                AfterPush(enums[Len(enums)])) :
                CASE f.at = "end" ->
                       /\ EnumerateReturn(f)
                       /\ enums' = SubSeq(enums, 1, Len(enums) - 1)
                       /\ UNCHANGED crashed
                  [] f.at = "flush" ->
                       /\ enums' = [enums EXCEPT ![Len(enums)] = f]
                       /\ UNCHANGED <<last, follows, crashed>>
                  [] f.at = "fault" ->
                       /\ crashed' = TRUE
                       /\ UNCHANGED <<last, follows, enums>>
    /\ UNCHANGED <<platform, environ, slots>>
    /\ UNCHANGED <<preload_script, ctxState, mainFrame, bound, slot, scopes,
                   calls, hookLog>>
    /\ UNCHANGED bindVars

(***************************************************************************)
(* Properties of the process.env interceptors                              *)
(***************************************************************************)
\* what the operating system itself answers for a name
OSLookup(plat, env, name) ==
    IF plat = "posix" THEN getenv(env, name) ELSE WinLookup(env, name)

HasNul(s) == NUL \in Range(s)

HasEq(s) == EQ \in Range(s)

\* a Get returns that follows, with no call returning in between, a Set on
\* the same string key
SetThenGet ==
    /\ last.call.op = "Set"
    /\ last'.call.op = "Get"
    /\ last'.call.key = last.call.key
    /\ IsString(last.call.key)

\* C3 as claimed: for every key that does not start with '=' and every
\* value X, Set(k, X) immediately followed by Get(k) returns X.
C3_Original ==
    [][(SetThenGet /\ ~StartsWithEq(last.call.key))
         => last'.ret = StringValue(last.call.val)]_vars

\* C3 amended: for every key that, read up to its first NUL, is not empty
\* and holds no '=' at all, and every value X without a NUL and, on
\* Windows, of fewer than kBufferSize characters (EnvGetter's buffer holds
\* the value and its terminator), Set(k, X) immediately followed by Get(k)
\* returns X.
C3_SetThenGet ==
    [][(SetThenGet /\ c_str(last.call.key) # <<>>
          /\ ~HasEq(c_str(last.call.key)) /\ ~HasNul(last.call.val)
          /\ (platform = "win32" => Len(last.call.val) < kBufferSize))
         => last'.ret = StringValue(last.call.val)]_vars

C3_Witness ==
    /\ platform = "win32"
    /\ follows = "Set"
    /\ last.call.op = "Get"
    /\ last.call.key = <<"A">>
    /\ last.ret = StringValue(LongestValue)
    /\ Len(environ) > 1

\* a Set of a string key that starts with '=' returns
HiddenSet ==
    /\ last'.call.op = "Set"
    /\ IsString(last'.call.key)
    /\ StartsWithEq(last'.call.key)

\* C4 as claimed: for every key starting with '=' and every value v,
\* Set(k, v) leaves the environment table as it was, the write is not
\* forwarded to the OS, and the operation reports v.
C4_Original ==
    [][HiddenSet
        => /\ environ' = environ
           /\ last'.wrote = "none"
           /\ last'.ret = [kind |-> "value", v |-> last'.call.val]]_vars

\* C4 amended: for every key starting with '=' and every value v, Set(k, v)
\* leaves the environment table as it was and reports v; the Windows build
\* does not forward the write to the OS, the POSIX build forwards it to
\* setenv, which refuses the name.
C4_HiddenSetIsNoOp ==
    [][HiddenSet
        => /\ environ' = environ
           /\ platform = "win32" => last'.wrote = "none"
           /\ platform = "posix" => last'.wrote = "setenv"
           /\ last'.ret = [kind |-> "value", v |-> last'.call.val]]_vars

C4_Witness ==
    /\ platform = "posix"
    /\ last.call.op = "Set"
    /\ last.call.key = <<EQ, "A">>
    /\ last.call.val = <<"x">>
    /\ last.wrote = "setenv"
    /\ last.ret.v = <<"x">>
    /\ \E i \in 1..Len(environ) : environ[i] = <<EQ, "A", EQ, "h">>

NonHidden(env) == SelectSeq(env, LAMBDA e : ~StartsWithEq(e))

\* C5 as claimed: Enumerate() returns no key starting with '=', and the
\* entries starting with '=' are skipped: nothing at all is emitted for
\* them, not even an empty or truncated key.
C5_Original ==
    last.call.op = "Enumerate"
        => /\ \A i \in 1..Len(last.ret.v) : ~StartsWithEq(last.ret.v[i])
           /\ Len(last.ret.v) = Len(NonHidden(last.walk.read))

\* C5 amended: Enumerate() returns no key starting with '='; the Windows
\* build skips the entries starting with '=', the POSIX build emits the
\* empty key for each of them that it reads.
C5_NoHiddenKey ==
    last.call.op = "Enumerate"
        => /\ \A i \in 1..Len(last.ret.v) : ~StartsWithEq(last.ret.v[i])
           /\ platform = "win32"
                => /\ last.walk.read = last.walk.start
                   /\ Len(last.ret.v) = Len(NonHidden(last.walk.read))
           /\ platform = "posix"
                => /\ Len(last.ret.v) = Len(last.walk.read)
                   /\ \A i \in 1..Len(last.walk.read) :
                        StartsWithEq(last.walk.read[i])
                          => last.ret.v[i] = <<>>

C5_Witness ==
    /\ last.call.op = "Enumerate"
    /\ platform = "posix"
    /\ last.walk.changed
    /\ last.walk.read # last.walk.start
    /\ Len(last.ret.v) > NODE_PUSH_VAL_TO_ARRAY_MAX
    /\ \E i \in 1..Len(last.walk.read) :
         StartsWithEq(last.walk.read[i]) /\ last.ret.v[i] = <<>>

Flags == ReadOnly + DontDelete + DontEnum

\* C6 as claimed: Query(key) sets no result exactly when key is not a
\* string or the OS has no such variable; for a variable that exists it
\* reports ReadOnly|DontDelete|DontEnum when key starts with '=' and 0
\* when it does not.
C6_Original ==
    last.call.op = "Query"
        => LET k == last.call.key
               has == IsString(k) /\ OSLookup(platform, environ, c_str(k)).found
           IN  /\ ~has <=> last.ret = Unset
               /\ (has /\ StartsWithEq(k)) => last.ret = IntValue(Flags)
               /\ (has /\ ~StartsWithEq(k)) => last.ret = IntValue(0)

\* C6 amended: as claimed, except that only the Windows build reports the
\* combined flags for an existing key starting with '='; the POSIX build
\* reports 0 for every variable that exists.
C6_Query ==
    last.call.op = "Query"
        => LET k == last.call.key
               has == IsString(k) /\ OSLookup(platform, environ, c_str(k)).found
           IN  /\ ~has <=> last.ret = Unset
               /\ (has /\ StartsWithEq(k) /\ platform = "win32")
                    => last.ret = IntValue(Flags)
               /\ (has /\ (~StartsWithEq(k) \/ platform = "posix"))
                    => last.ret = IntValue(0)

C6_Witness ==
    /\ last.call.op = "Query"
    /\ last.call.key = <<EQ, "A">>
    /\ last.ret = IntValue(Flags)

\* a Query returns that follows, with no call returning in between, a
\* Delete on the same string key
DeleteThenQuery ==
    /\ last.call.op = "Delete"
    /\ last'.call.op = "Query"
    /\ last'.call.key = last.call.key
    /\ IsString(last.call.key)

\* the part of C7 about Delete itself: it reports true, and for a key that
\* is not a string it changes nothing
DeleteReports ==
    last'.call.op = "Delete"
        => /\ last'.ret = BoolValue(TRUE)
           /\ ~IsString(last'.call.key) => environ' = environ

\* C7 as claimed: for every string key not starting with '=', Delete(k)
\* reports true and an immediately following Query(k) reports not-found;
\* Delete of a non-string key reports true and changes nothing.
C7_Original ==
    [][/\ DeleteReports
       /\ (DeleteThenQuery /\ ~StartsWithEq(last.call.key))
            => last'.ret = Unset]_vars

\* C7 amended: the same for every string key that, read up to its first
\* NUL, holds no '=' at all.
C7_DeleteThenQuery ==
    [][/\ DeleteReports
       /\ (DeleteThenQuery /\ ~HasEq(c_str(last.call.key)))
            => last'.ret = Unset]_vars

C7_Witness ==
    /\ follows = "Delete"
    /\ last.call.op = "Query"
    /\ last.call.key = <<"A">>
    /\ last.ret = Unset
    /\ Len(environ) > 0

K_ipc == <<"i", "p", "c">>
K_v8_util == <<"v", "8">>
K_missing == <<"n", "o">>
K_constructor == <<"c", "o", "n", "s", "t", "r", "u", "c", "t", "o", "r">>
K_missing_nul == <<"n", "o", NUL, "x">>

\* char errmsg[1024]
kErrmsgSize == 1024

NoSuchModule ==
    <<"N", "o", " ", "s", "u", "c", "h", " ", "m", "o", "d", "u", "l", "e",
      ":", " ">>

\* the shortest key that no longer fits errmsg behind "No such module: "
K_long ==
    SubSeq([i \in 1..(kErrmsgSize - Len(NoSuchModule)) |-> "a"], 1,
           kErrmsgSize - Len(NoSuchModule))

\* names that NodeBindings::RegisterBuiltinModules linked into the process
Registry == {K_ipc, K_v8_util}

\* node::get_builtin_module(name): the module registered under exactly this
\* C string, nullptr for none
NoModule == <<>>

get_builtin_module(name) == IF name \in Registry THEN name ELSE NoModule

\* values a v8::Local can hold
EmptyLocal == [kind |-> "empty", id |-> 0, ctx |-> 0, name |-> <<>>]

\* the n-th object made in context c by v8::Object::New(isolate) for a
\* module's exports
ExportsObject(c, n) == [kind |-> "exports", id |-> n, ctx |-> c, name |-> <<>>]

\* properties every object made by v8::Object::New inherits from the
\* Object.prototype of its context, here its "constructor" function
ObjectPrototypeNames == {K_constructor}

Inherited(c, name) == [kind |-> "inherited", id |-> 0, ctx |-> c, name |-> name]

\* the hidden value kModuleCacheKey of a global object: not there, or the
\* cache object with its own properties
NoCache == [made |-> FALSE, own |-> <<>>]

NewCache == [made |-> TRUE, own |-> <<>>]

\* mutant: the cache is kept on the global object of the first context
GetModuleCache_Shared(ch, c) ==
    IF ~ch[1].made THEN [ch EXCEPT ![1] = NewCache] ELSE ch

\* GetModuleCache: the caches after the call, which creates the current
\* context's cache if GetHidden finds none
GetModuleCache(ch, c) ==
    IF ~ch[c].made THEN [ch EXCEPT ![c] = NewCache] ELSE ch

\* mate::Dictionary::Get(key, &exports) on the cache object: the property
\* is looked up as JavaScript does, own properties first and then the
\* prototype chain, and the value is accepted when it is an object
DictionaryGet(c, obj, name) ==
    IF name \in DOMAIN obj.own THEN [hit |-> TRUE, value |-> obj.own[name]]
    ELSE IF name \in ObjectPrototypeNames
    THEN [hit |-> TRUE, value |-> Inherited(c, name)]
    ELSE [hit |-> FALSE, value |-> EmptyLocal]

\* mutant: the exports are not stored
DictionarySet_NotStored(obj, name, value) == obj

\* mate::Dictionary::Set(key, exports) on the cache object
DictionarySet(obj, name, value) ==
    [obj EXCEPT !.own = (name :> value) @@ obj.own]

\* snprintf(buf, size, "%s%s", prefix, arg): at most size - 1 characters
snprintf(size, prefix, arg) ==
    LET whole == prefix \o arg
    IN  IF Len(whole) <= size - 1 THEN whole ELSE SubSeq(whole, 1, size - 1)

\* the message GetBinding throws for a key the registry does not know;
\* name is module_key.c_str()
ErrMsg(name) == snprintf(kErrmsgSize, NoSuchModule, name)

\* the keys script passes to get, by name, and their text
ModuleKeys ==
    {"ipc", "v8_util", "missing", "missing_nul", "constructor", "long"}

Text(key) ==
    CASE key = "ipc" -> K_ipc
      [] key = "v8_util" -> K_v8_util
      [] key = "missing" -> K_missing
      [] key = "constructor" -> K_constructor
      [] key = "missing_nul" -> K_missing_nul
      [] key = "long" -> K_long

NoResult == [outcome |-> "none", obj |-> EmptyLocal, msg |-> <<>>]

Returned(obj) == [outcome |-> "returned", obj |-> obj, msg |-> <<>>]

Threw(msg) == [outcome |-> "threw", obj |-> EmptyLocal, msg |-> msg]

\* the keys that name a module of the registry
Resolvable ==
    {k \in ModuleKeys : get_builtin_module(c_str(V8ToString(Text(k)))) # NoModule}

\* get(key) was called on context c before
Started(c, key) ==
    \/ key \in Resolvable /\ first[c][key] # NoResult
    \/ \E i \in 1..Len(stack) : stack[i].ctx = c /\ stack[i].key = key

\* a get call returns to its caller
Finish(c, key, isFirst, afterFirst, result, depth) ==
    /\ lastGet' = [ctx |-> c, key |-> key, afterFirst |-> afterFirst,
                   result |-> result, depth |-> depth]
    /\ first' = IF isFirst /\ key \in Resolvable
                THEN [first EXCEPT ![c][key] = result]
                ELSE first

\* binding.get(key) up to its return or, for a module to be registered, up
\* to the call of the module's register function (lines 59-80)
GetBinding(c, key) ==
    LET module_key == V8ToString(Text(key))
        name == c_str(module_key)
        ch == GetModuleCache(cache, c)
        found == DictionaryGet(c, ch[c], name)
        mod == get_builtin_module(name)
        isFirst == ~Started(c, key)
        afterFirst == key \in Resolvable /\ first[c][key] # NoResult
    IN  /\ SandboxRuns(c) /\ bound[c]
        /\ IF found.hit
           THEN /\ cache' = ch
                /\ Finish(c, key, isFirst, afterFirst, Returned(found.value),
                          Len(stack))
                /\ UNCHANGED <<nextObj, stack, registered>>
           ELSE IF mod = NoModule
           THEN /\ cache' = ch
                /\ Finish(c, key, isFirst, afterFirst,
                          Threw(ErrMsg(name)), Len(stack))
                /\ UNCHANGED <<nextObj, stack, registered>>
           ELSE /\ Len(stack) < MaxDepth
                /\ cache' = ch
                /\ nextObj' = [nextObj EXCEPT ![c] = @ + 1]
                /\ stack' = Append(stack,
                                   [ctx |-> c, key |-> key,
                                    name |-> name,
                                    exports |-> ExportsObject(c, nextObj[c] + 1),
                                    isFirst |-> isFirst,
                                    afterFirst |-> afterFirst])
                /\ registered' = [registered EXCEPT ![c][mod] = @ + 1]
                /\ UNCHANGED <<first, lastGet>>
        /\ UNCHANGED <<envVars, hookVars>>

\* the register function of the innermost get returns: the exports are
\* stored in the cache and returned (lines 81-82)
GetBindingReturn ==
    /\ stack # <<>>
    /\ ~crashed
    /\ LET f == stack[Len(stack)]
       IN  /\ stack' = SubSeq(stack, 1, Len(stack) - 1)
           /\ cache' = [cache EXCEPT
                          ![f.ctx] = DictionarySet(@, f.name, f.exports)]
           /\ Finish(f.ctx, f.key, f.isFirst, f.afterFirst,
                     Returned(f.exports), Len(stack) - 1)
    /\ UNCHANGED <<nextObj, registered>>
    /\ UNCHANGED <<envVars, hookVars>>

(***************************************************************************)
(* Lifecycle hooks and the notification channel                            *)
(***************************************************************************)
\* the value under the private key kIpcKey of a global object: nothing, a
\* value that is not an object, or an object with some function properties
Absent == [kind |-> "absent", fns |-> {}]

NonObject == [kind |-> "number", fns |-> {}]

ChannelObject(fns) == [kind |-> "object", fns |-> fns]

CallbackNames == {"onMessage", "onExit"}

\* what script may store there: the object carrying both callbacks as
\* sandboxed_renderer/init.js does, one without onExit, or no object
SlotValues ==
    {NonObject, ChannelObject({"onMessage"}), ChannelObject(CallbackNames)}

\* mutant: the hook's own Context::Scope is not counted
CurrentContext_Outer(sc) == IF Len(sc) <= 1 THEN 0 ELSE sc[Len(sc) - 1].ctx

\* isolate->GetCurrentContext(): the context of the innermost
\* v8::Context::Scope, 0 when none is entered
CurrentContext(sc) == IF sc = <<>> THEN 0 ELSE sc[Len(sc)].ctx

\* mate::ConvertToV8(isolate, channel): a v8 string with the text of the
\* string16
ConvertToV8(str) == <<"v8::String", str[2]>>

\* V8ValueConverter::ToV8Value(&args, context): a v8 array with the items of
\* the ListValue
ToV8Value(list) == <<"v8::Array", list[2]>>

Channels == {<<"string16", "a">>, <<"string16", "b">>}

Payloads == {<<"ListValue", <<42>>>>}

NullFrame == 0

PreloadPaths == {<<>>, <<"p", ".", "j", "s">>}

\* a call into sandbox script: the function, its receiver's context, the
\* arguments, and the context that was current
ScriptCall(c, fn, args, sc) ==
    [ctx |-> c, fn |-> fn, args |-> args, current |-> CurrentContext(sc),
     state |-> ctxState[c]]

\* a hook call as the host made it, with the slot it found
HookCall(hook, c, isMain, channel, args) ==
    [hook |-> hook, ctx |-> c, channel |-> channel, args |-> args,
     main |-> isMain,
     slot |-> IF c = NullFrame THEN Absent ELSE slot[c]]

\* mutant: the IsObject test left out
InvokeOutcomes_NoObjectTest(value, callback_name) ==
    IF callback_name \in value.fns THEN {"call"} ELSE {"crash", "return"}

\* mutant: the IsObject test inverted
InvokeOutcomes_Inverted(value, callback_name) ==
    IF value.kind = "object" THEN {"return"}
    ELSE IF callback_name \in value.fns THEN {"call"}
    ELSE {"crash", "return"}

\* what InvokeIpcCallback does with the slot of `context`: "return" for
\* the two early returns, "call" when the property is a function;
\* otherwise DCHECK(callback_value->IsFunction()) fails or, without
\* DCHECKs, a value that is no function is cast and called
InvokeOutcomes(value, callback_name) ==
    IF value.kind # "object" THEN {"return"}
    ELSE IF callback_name \in value.fns THEN {"call"}
    ELSE {"crash", "return"}

\* InvokeIpcCallback(context, callback_name, args) called by `hook`, whose
\* Context::Scope stays entered while the callback's script runs
InvokeIpcCallback(hook, c, callback_name, args) ==
    \E outcome \in InvokeOutcomes(slot[c], callback_name) :
        /\ crashed' = (outcome = "crash")
        /\ IF outcome = "call"
           THEN /\ scopes' = Append(scopes, [hook |-> hook, ctx |-> c])
                /\ calls' = [calls EXCEPT ![c] =
                               Append(@, ScriptCall(c, callback_name, args,
                                                    scopes'))]
           ELSE UNCHANGED <<scopes, calls>>

RECURSIVE Sum(_, _)
Sum(f, S) ==
    IF S = {} THEN 0
    ELSE LET x == CHOOSE y \in S : TRUE IN f[x] + Sum(f, S \ {x})

Frames == Ctx \cup {NullFrame}

\* IPC messages that have arrived
Arrived ==
    Sum([f \in Frames |->
           Len(SelectSeq(hookLog[f], LAMBDA a : a.hook = "EmitIPCEvent"))],
        Frames)

\* mutant: the two arguments in the other order
PreloadArgs_Swapped(c, path) ==
    <<ConvertToV8(<<"std::string", path>>), <<"binding", c>>>>

\* the arguments of the call of the wrapped preload function (lines 376-381)
PreloadArgs(c, path) ==
    <<<<"binding", c>>, ConvertToV8(<<"std::string", path>>)>>

\* mutant: the main frame test left out
DidCreateScriptContext_AnyFrame(c, isMain) ==
    /\ ~crashed
    /\ ctxState[c] = "none"
    /\ ctxState' = [ctxState EXCEPT ![c] = "created"]
    /\ mainFrame' = [mainFrame EXCEPT ![c] = isMain]
    /\ hookLog' = [hookLog EXCEPT ![c] =
                      Append(@, HookCall("DidCreate", c, isMain, <<>>, <<>>))]
    /\ IF preload_script = <<>>
       THEN UNCHANGED <<bound, scopes, calls>>
       ELSE /\ bound' = [bound EXCEPT ![c] = TRUE]
            /\ scopes' = Append(scopes, [hook |-> "DidCreate", ctx |-> c])
            /\ calls' = [calls EXCEPT ![c] =
                           Append(@, [ScriptCall(c, "preload",
                                                 PreloadArgs(c, preload_script),
                                                 scopes')
                                        EXCEPT !.state = "created"])]
    /\ UNCHANGED <<preload_script, slot, crashed>>
    /\ UNCHANGED <<envVars, bindVars>>

DidCreateScriptContext(c, isMain) ==
    /\ ~crashed
    /\ ctxState[c] = "none"
    /\ ctxState' = [ctxState EXCEPT ![c] = "created"]
    /\ mainFrame' = [mainFrame EXCEPT ![c] = isMain]
    /\ hookLog' = [hookLog EXCEPT ![c] =
                      Append(@, HookCall("DidCreate", c, isMain, <<>>, <<>>))]
    /\ IF ~isMain \/ preload_script = <<>>
       THEN UNCHANGED <<bound, scopes, calls>>
       ELSE /\ bound' = [bound EXCEPT ![c] = TRUE]
            /\ scopes' = Append(scopes, [hook |-> "DidCreate", ctx |-> c])
            /\ calls' = [calls EXCEPT ![c] =
                           Append(@, [ScriptCall(c, "preload",
                                                 PreloadArgs(c, preload_script),
                                                 scopes')
                                        EXCEPT !.state = "created"])]
    /\ UNCHANGED <<preload_script, slot, crashed>>
    /\ UNCHANGED <<envVars, bindVars>>

EmitIPCEvent(frame, channel, args) ==
    /\ ~crashed
    /\ Arrived < MaxArrivals
    /\ frame # NullFrame => ctxState[frame] = "created"
    /\ hookLog' = [hookLog EXCEPT ![frame] =
                      Append(@, HookCall("EmitIPCEvent", frame,
                                         frame # NullFrame /\ mainFrame[frame],
                                         channel, args))]
    /\ IF frame = NullFrame
       THEN UNCHANGED <<scopes, calls, crashed>>
       ELSE InvokeIpcCallback("EmitIPCEvent", frame, "onMessage",
                              <<ConvertToV8(channel), ToV8Value(args)>>)
    /\ UNCHANGED <<preload_script, ctxState, mainFrame, bound, slot>>
    /\ UNCHANGED <<envVars, bindVars>>

\* mutant: the main frame test left out
WillReleaseScriptContext_AnyFrame(c) ==
    /\ ~crashed
    /\ ctxState[c] = "created"
    /\ hookLog' = [hookLog EXCEPT ![c] =
                      Append(@, HookCall("WillRelease", c, mainFrame[c],
                                         <<>>, <<>>))]
    /\ InvokeIpcCallback("WillRelease", c, "onExit", <<>>)
    /\ ctxState' = [ctxState EXCEPT ![c] =
                      IF Len(scopes') > Len(scopes) THEN "releasing"
                      ELSE "released"]
    /\ UNCHANGED <<preload_script, mainFrame, bound, slot>>
    /\ UNCHANGED <<envVars, bindVars>>

WillReleaseScriptContext(c) ==
    /\ ~crashed
    /\ ctxState[c] = "created"
    /\ hookLog' = [hookLog EXCEPT ![c] =
                      Append(@, HookCall("WillRelease", c, mainFrame[c],
                                         <<>>, <<>>))]
    /\ IF ~mainFrame[c]
       THEN UNCHANGED <<scopes, calls, crashed>>
       ELSE InvokeIpcCallback("WillRelease", c, "onExit", <<>>)
    /\ ctxState' = [ctxState EXCEPT ![c] =
                      IF Len(scopes') > Len(scopes) THEN "releasing"
                      ELSE "released"]
    /\ UNCHANGED <<preload_script, mainFrame, bound, slot>>
    /\ UNCHANGED <<envVars, bindVars>>

\* the script called by the innermost hook returns and the hook with it:
\* its Context::Scope is left, and a context being released is torn down
HookReturn ==
    /\ ~crashed
    /\ scopes # <<>>
    /\ LET top == scopes[Len(scopes)]
       IN  /\ scopes' = SubSeq(scopes, 1, Len(scopes) - 1)
           /\ ctxState' = IF top.hook = "WillRelease"
                          THEN [ctxState EXCEPT ![top.ctx] = "released"]
                          ELSE ctxState
    /\ UNCHANGED <<preload_script, mainFrame, bound, slot, calls, hookLog,
                   crashed>>
    /\ UNCHANGED <<envVars, bindVars>>

\* sandbox script with the v8_util binding stores a value under the
\* private key of the global object of context c (setHiddenValue); the slot
\* is written once and only read afterwards
SetChannel(c, value) ==
    /\ ~crashed
    /\ ctxState[c] \in {"created", "releasing"}
    /\ \E b \in Ctx : bound[b] /\ ctxState[b] \in {"created", "releasing"}
    /\ slot[c] = Absent
    /\ slot' = [slot EXCEPT ![c] = value]
    /\ UNCHANGED <<preload_script, ctxState, mainFrame, bound, scopes, calls,
                   hookLog, crashed>>
    /\ UNCHANGED <<envVars, bindVars>>

(***************************************************************************)
(* Specifications                                                          *)
(***************************************************************************)
NoGet ==
    [ctx |-> 0, key |-> "none", afterFirst |-> FALSE, result |-> NoResult,
     depth |-> 0]

EnvInit(blocks) ==
    /\ platform \in {"posix", "win32"}
    /\ environ \in blocks
    /\ slots = Len(environ) + 1
    /\ last = Done(NoCall, Unset, NoWalk)
    /\ follows = "none"
    /\ enums = <<>>

BindInit ==
    /\ cache = [c \in Ctx |-> NoCache]
    /\ nextObj = [c \in Ctx |-> 0]
    /\ stack = <<>>
    /\ registered = [c \in Ctx |-> [m \in Registry |-> 0]]
    /\ first = [c \in Ctx |-> [k \in Resolvable |-> NoResult]]
    /\ lastGet = NoGet

\* AtomSandboxedRendererClient has been constructed; no script context yet
HookInit ==
    /\ preload_script \in PreloadPaths
    /\ ctxState = [c \in Ctx |-> "none"]
    /\ mainFrame = [c \in Ctx |-> FALSE]
    /\ bound = [c \in Ctx |-> FALSE]
    /\ slot = [c \in Ctx |-> Absent]
    /\ scopes = <<>>
    /\ calls = [c \in Ctx |-> <<>>]
    /\ hookLog = [f \in Frames |-> <<>>]
    /\ crashed = FALSE

ThePreload == <<"p", ".", "j", "s">>

\* the state after DidCreateScriptContext ran the preload script, and
\* returned, for the main frame of each of NumCtx render views
Running ==
    /\ preload_script = ThePreload
    /\ ctxState = [c \in Ctx |-> "created"]
    /\ mainFrame = [c \in Ctx |-> TRUE]
    /\ bound = [c \in Ctx |-> TRUE]
    /\ slot = [c \in Ctx |-> Absent]
    /\ scopes = <<>>
    /\ calls = [c \in Ctx |->
                  <<[ctx |-> c, fn |-> "preload",
                     args |-> PreloadArgs(c, ThePreload),
                     current |-> c, state |-> "created"]>>]
    /\ hookLog = [f \in Frames |->
                    IF f = NullFrame THEN <<>>
                    ELSE <<[hook |-> "DidCreate", ctx |-> f, channel |-> <<>>,
                            args |-> <<>>, main |-> TRUE, slot |-> Absent]>>]
    /\ crashed = FALSE

Init == EnvInit(InitBlocks) /\ HookInit /\ BindInit

NextEnv ==
    \/ \E k \in EnvKeys : Get(k)
    \/ \E k \in EnvKeys, v \in EnvValues : Set(k, v)
    \/ \E k \in EnvKeys : Query(k)
    \/ \E k \in EnvKeys : Delete(k)
    \/ Enumerate
    \/ EnumerateContinue

NextBind ==
    \/ \E c \in Ctx, key \in ModuleKeys : GetBinding(c, key)
    \/ GetBindingReturn

NextHook ==
    \/ \E c \in Ctx, isMain \in BOOLEAN : DidCreateScriptContext(c, isMain)
    \/ \E frame \in Frames, channel \in Channels,
          args \in Payloads : EmitIPCEvent(frame, channel, args)
    \/ \E c \in Ctx : WillReleaseScriptContext(c)
    \/ HookReturn
    \/ \E c \in Ctx, value \in SlotValues : SetChannel(c, value)

Next == NextHook \/ NextBind \/ NextEnv

Spec == Init /\ [][Next]_vars

\* script using binding.env in a renderer whose preload scripts have run
InitEnv == EnvInit(InitBlocks) /\ Running /\ BindInit

SpecEnv == InitEnv /\ [][NextEnv]_vars

\* script writing and reading binding.env, with values up to the size of
\* EnvGetter's buffer
NextSetGet ==
    \/ \E k \in SetGetKeys, v \in SetGetValues : Set(k, v)
    \/ \E k \in SetGetKeys : Get(k)

InitSetGet == EnvInit(SetGetBlocks) /\ Running /\ BindInit

SpecSetGet == InitSetGet /\ [][NextSetGet]_vars

\* script using binding.get in a renderer whose preload scripts have run
InitBind == EnvInit({<<>>}) /\ Running /\ BindInit

SpecBind == InitBind /\ [][NextBind]_vars

\* the lifecycle hooks and the notification channel
InitHook == EnvInit({<<>>}) /\ HookInit /\ BindInit

SpecHook == InitHook /\ [][NextHook]_vars

\* names of the variables of a long environment block
Letters ==
    <<"a", "b", "c", "d", "e", "f", "g", "h", "i", "j", "k", "l", "m", "n",
      "o", "p", "q", "r", "s", "t", "u", "v", "w", "x", "y", "z">>

\* the block of n variables, the first without '=' when bare, with an
\* entry starting with '=' put in at position hidden (0 for none)
EnumBlock(n, bare, hidden) ==
    LET plain == [i \in 1..n |->
                    IF bare /\ i = 1 THEN <<Letters[i]>>
                    ELSE <<Letters[i], EQ, "v">>]
    IN  IF hidden = 0 THEN plain
        ELSE SubSeq(plain, 1, hidden - 1) \o <<<<EQ, "A", EQ, "h">>>>
               \o SubSeq(plain, hidden, n)

\* blocks of every length up to MaxEnumEnv, with no entry starting with
\* '=', with one in front and with one at the end
EnumBlocks ==
    UNION {{EnumBlock(n, bare, hidden) :
              bare \in BOOLEAN, hidden \in {0, 1, n + 1}} : n \in 0..MaxEnumEnv}

EnumKeys == {<<"a">>, <<"b">>, <<"i">>}

InitEnum == EnvInit(EnumBlocks) /\ Running /\ BindInit

NextEnum ==
    \/ Enumerate
    \/ EnumerateContinue
    \/ \E k \in EnumKeys : Delete(k)
    \/ Set(<<"z">>, <<"q">>)

\* script enumerating and deleting from process.env over a long block
SpecEnum == InitEnum /\ [][NextEnum]_vars

(***************************************************************************)
(* Properties of binding.get                                               *)
(***************************************************************************)
\* C1: for a key the registry resolves, every get(key) made on a context
\* after the first get(key) on that context returned gives back the very
\* object the first one returned.
C1_SameObject ==
    (lastGet.afterFirst /\ lastGet.key \in Resolvable)
        => /\ lastGet.result.outcome = "returned"
           /\ lastGet.result = first[lastGet.ctx][lastGet.key]

C1_Witness ==
    /\ lastGet.afterFirst
    /\ lastGet.key = "ipc"
    /\ lastGet.result.obj.kind = "exports"
    /\ first[lastGet.ctx]["v8_util"] # NoResult
    /\ first[lastGet.ctx]["v8_util"].obj # lastGet.result.obj
    /\ \E c \in Ctx : c # lastGet.ctx /\ first[c]["ipc"] # NoResult

\* msg holds the text of key, character for character
Contains(msg, key) ==
    \E i \in 0..(Len(msg) - Len(key)) : SubSeq(msg, i + 1, i + Len(key)) = key

\* C2 as claimed: for a key of any length that the registry does not hold,
\* get(key) throws an error whose message contains the whole key, and
\* returns no object.
C2_Original ==
    (lastGet.ctx # 0 /\ Text(lastGet.key) \notin Registry)
        => /\ lastGet.result.outcome = "threw"
           /\ Contains(lastGet.result.msg, Text(lastGet.key))

(***************************************************************************)
(* Properties of the notification channel                                  *)
(***************************************************************************)
HasFunction(value, fn) == value.kind = "object" /\ fn \in value.fns

\* the arrivals for the frame of context c that found an object with an
\* onMessage function in the slot
EligibleArrivals(c) ==
    SelectSeq(hookLog[c],
              LAMBDA a : a.hook = "EmitIPCEvent"
                           /\ HasFunction(a.slot, "onMessage"))

CallsOf(c, fn) == SelectSeq(calls[c], LAMBDA x : x.fn = fn)

\* C9: for a context whose slot holds an object with an onMessage function,
\* the onMessage calls are the arrivals with a non-null frame, one call per
\* arrival made before EmitIPCEvent returns, in the order of arrival, each
\* with the two arguments (channel, converted payload); an arrival with a
\* null frame calls nothing.
C9_OnMessageInOrder ==
    /\ \A c \in Ctx :
         LET arr == EligibleArrivals(c)
             inv == CallsOf(c, "onMessage")
         IN  /\ Len(inv) = Len(arr)
             /\ \A i \in 1..Len(inv) :
                  /\ Len(inv[i].args) = 2
                  /\ inv[i].args[1] = <<"v8::String", arr[i].channel[2]>>
                  /\ inv[i].args[2] = <<"v8::Array", arr[i].args[2]>>
                  /\ inv[i].ctx = c
    /\ Sum([c \in Ctx |-> Len(CallsOf(c, "onMessage"))], Ctx)
         <= Arrived - Len(hookLog[NullFrame])

C9_Witness ==
    \E c \in Ctx :
        /\ Len(CallsOf(c, "onMessage")) = 2
        /\ CallsOf(c, "onMessage")[1].args[1] = <<"v8::String", "b">>
        /\ CallsOf(c, "onMessage")[2].args[1] = <<"v8::String", "a">>

Releases(c) == SelectSeq(hookLog[c], LAMBDA a : a.hook = "WillRelease")

\* C10: onExit is called with no arguments, once, before the context is
\* torn down, exactly when WillReleaseScriptContext is called for a main
\* frame's context whose slot holds the channel object (an object with an
\* onExit function), whatever the preload path; it is never called for the
\* context of a frame that is not the main frame.
C10_OnExitOnce ==
    \A c \in Ctx :
        LET rel == Releases(c)
            exits == CallsOf(c, "onExit")
            due == /\ Len(rel) = 1
                   /\ rel[1].main
                   /\ HasFunction(rel[1].slot, "onExit")
        IN  /\ Len(exits) = IF due THEN 1 ELSE 0
            /\ \A i \in 1..Len(exits) :
                 /\ exits[i].args = <<>>
                 /\ exits[i].state = "created"
            /\ ctxState[c] = "released" /\ due => Len(exits) = 1
            /\ ~mainFrame[c] => exits = <<>>

C10_Witness ==
    \E c \in Ctx, d \in Ctx :
        /\ ctxState[c] = "released"
        /\ Len(CallsOf(c, "onExit")) = 1
        /\ ctxState[d] = "released"
        /\ ~mainFrame[d]
        /\ HasFunction(slot[d], "onExit")

(***************************************************************************)
(* Properties of the lifecycle hooks                                       *)
(***************************************************************************)
Creations(c) == SelectSeq(hookLog[c], LAMBDA a : a.hook = "DidCreate")

\* C11: DidCreateScriptContext runs the preload script and makes a binding
\* object exactly when the frame is the main frame and the preload path is
\* not empty; otherwise it returns with no preload run, no binding object,
\* no context entered and no failure.
C11_PreloadPolicy ==
    /\ [](\A c \in Ctx :
            LET did == Creations(c)
                pre == CallsOf(c, "preload")
                due == /\ Len(did) = 1
                       /\ did[1].main
                       /\ preload_script # <<>>
            IN  /\ Len(pre) = IF due THEN 1 ELSE 0
                /\ bound[c] <=> due)
    /\ [][\A c \in Ctx :
            (ctxState[c] = "none" /\ ctxState'[c] = "created"
               /\ ~(mainFrame'[c] /\ preload_script # <<>>))
              => /\ UNCHANGED <<bound, calls, scopes, slot, crashed>>
                 /\ ~crashed]_vars

C11_Witness ==
    /\ preload_script # <<>>
    /\ \E c \in Ctx, d \in Ctx :
         /\ bound[c] /\ mainFrame[c] /\ Len(CallsOf(c, "preload")) = 1
         /\ ctxState[d] = "created" /\ ~mainFrame[d] /\ ~bound[d]
         /\ calls[d] = <<>>

\* the hook that was called for context c in this step, "none" for none
HookCalled(c) ==
    IF Len(hookLog'[c]) = Len(hookLog[c]) + 1
    THEN hookLog'[c][Len(hookLog'[c])].hook
    ELSE "none"

\* C12: when the private slot of the context is absent or holds a value
\* that is not an object, InvokeIpcCallback calls no callback, fails in no
\* way and changes no state.
C12_SilentNoOp ==
    [][\A c \in Ctx :
         (HookCalled(c) \in {"EmitIPCEvent", "WillRelease"}
            /\ slot[c].kind # "object")
           => /\ UNCHANGED <<calls, scopes, crashed, slot, bound>>
              /\ ~crashed']_vars

C12_Witness ==
    /\ ~crashed
    /\ \E c \in Ctx, d \in Ctx :
         /\ c # d
         /\ \E i \in 1..Len(hookLog[c]) :
              /\ hookLog[c][i].hook = "WillRelease"
              /\ hookLog[c][i].main
              /\ hookLog[c][i].slot = NonObject
         /\ \E i \in 1..Len(hookLog[c]) :
              /\ hookLog[c][i].hook = "EmitIPCEvent"
              /\ hookLog[c][i].slot = NonObject
         /\ CallsOf(c, "onMessage") = <<>> /\ CallsOf(c, "onExit") = <<>>
         /\ \E i \in 1..Len(hookLog[d]) :
              /\ hookLog[d][i].hook = "EmitIPCEvent"
              /\ hookLog[d][i].slot = Absent
         /\ CallsOf(d, "onMessage") = <<>>

\* the callback name a hook passes to InvokeIpcCallback
EventName(hook) == IF hook = "EmitIPCEvent" THEN "onMessage" ELSE "onExit"

\* C13 as claimed: when the private slot holds an object that has no
\* function under the event name, InvokeIpcCallback calls nothing and does
\* not fail.
C13_Original ==
    [][\A c \in Ctx :
         (/\ HookCalled(c) \in {"EmitIPCEvent", "WillRelease"}
          /\ HookCalled(c) = "WillRelease" => mainFrame[c]
          /\ slot[c].kind = "object"
          /\ EventName(HookCalled(c)) \notin slot[c].fns)
           => /\ UNCHANGED <<calls, scopes>>
              /\ ~crashed']_vars

\* C14 as claimed: the wrapped preload function receives three values, the
\* binding object of the context, the preload path and the require value,
\* in that order.
C14_Original ==
    \A c \in Ctx :
        \A i \in 1..Len(CallsOf(c, "preload")) :
            LET args == CallsOf(c, "preload")[i].args
            IN  /\ Len(args) >= 3
                /\ args[1] = <<"binding", c>>
                /\ args[2] = <<"v8::String", preload_script>>

\* C14 amended: the wrapped preload function is called, with its context
\* current, with exactly two arguments: the binding object made for that
\* context and the preload path, in that order; no value is passed for its
\* third parameter, require.
C14_PreloadArguments ==
    \A c \in Ctx :
        \A i \in 1..Len(CallsOf(c, "preload")) :
            LET call == CallsOf(c, "preload")[i]
            IN  /\ Len(call.args) = 2
                /\ call.args[1] = <<"binding", c>>
                /\ call.args[2] = <<"v8::String", preload_script>>
                /\ call.current = c

C14_Witness ==
    \A c \in Ctx :
        /\ Len(CallsOf(c, "preload")) = 1
        /\ CallsOf(c, "preload")[1].args[1] = <<"binding", c>>
        /\ hookLog[c][1].hook = "DidCreate"

(***************************************************************************)
(* Further properties of binding.get                                       *)
(***************************************************************************)
\* the module a key names
ModuleOf(key) == get_builtin_module(c_str(V8ToString(Text(key))))

\* C15 as claimed: for every context and every key of the registry, the
\* module's register function is called exactly once however get(key) is
\* called on that context, a get(key) made before the first one returned
\* included, and the exports are in the cache once the first get(key) has
\* returned.
C15_Original ==
    \A c \in Ctx, k \in Resolvable :
        /\ registered[c][ModuleOf(k)] = IF Started(c, k) THEN 1 ELSE 0
        /\ first[c][k] # NoResult
             => c_str(V8ToString(Text(k))) \in DOMAIN cache[c].own

(***************************************************************************)
(* Further properties of the process.env interceptors                      *)
(***************************************************************************)
\* the text of an entry before its first '=', all of it when it has none
TextBeforeEq(e) ==
    LET n == CHOOSE n \in 0..Len(e) :
                 /\ \A j \in 1..n : e[j] # EQ
                 /\ n = Len(e) \/ e[n + 1] = EQ
    IN  SubSeq(e, 1, n)

KeysOf(entries) == [i \in 1..Len(entries) |-> TextBeforeEq(entries[i])]

C17_StackDiscipline ==
    /\ [](\A c \in Ctx : \A i \in 1..Len(calls[c]) : calls[c][i].current = c)
    /\ [][/\ \A c \in Ctx :
               HookCalled(c) # "none"
                 => \/ calls' = calls /\ scopes' = scopes
                    \/ /\ Len(calls'[c]) = Len(calls[c]) + 1
                       /\ scopes' = Append(scopes, [hook |-> HookCalled(c),
                                                   ctx |-> c])
          /\ HookCalled(NullFrame) # "none" => scopes' = scopes
          /\ (\A f \in Frames : HookCalled(f) = "none")
               => \/ scopes' = scopes
                  \/ /\ scopes # <<>>
                     /\ scopes' = SubSeq(scopes, 1, Len(scopes) - 1)
                     /\ CurrentContext(scopes')
                          = IF Len(scopes) = 1 THEN 0
                            ELSE scopes[Len(scopes) - 1].ctx]_vars

C17_Witness ==
    \E c \in Ctx, d \in Ctx :
        /\ c # d
        /\ scopes = <<[hook |-> "DidCreate", ctx |-> c]>>
        /\ ~bound[d]
        /\ Len(CallsOf(d, "onMessage")) = 1
        /\ CallsOf(d, "onMessage")[1].current = d
        /\ Len(hookLog[NullFrame]) = 1

(***************************************************************************)
(* Soundness and scope of the module cache                                 *)
(***************************************************************************)
\* C18 as claimed: get(name) returns an object only if the registry knows
\* the name and the object is the exports made for it in the current
\* context; a name the registry does not know never yields an object, a
\* name that plain objects inherit included.
C18_Original ==
    lastGet.result.outcome = "returned"
        => /\ lastGet.key \in Resolvable
           /\ lastGet.result.obj.kind = "exports"
           /\ lastGet.result.obj.ctx = lastGet.ctx

(***************************************************************************)
(* Keys starting with '='                                                  *)
(***************************************************************************)
\* the entries of a block whose key starts with '='
Hidden(env) == SelectSeq(env, LAMBDA e : StartsWithEq(e))

\* C19 as claimed: no Get, Set, Query, Delete or Enumerate changes whether
\* a key starting with '=' exists or what its value is; Delete of such a
\* key reports true and removes nothing.
C19_Original ==
    [][/\ Hidden(environ') = Hidden(environ)
       /\ (last'.call.op = "Delete" /\ IsString(last'.call.key)
             /\ StartsWithEq(last'.call.key))
            => last'.ret = BoolValue(TRUE)]_vars

\* the context whose get call took this step
StepContext ==
    IF Len(stack') > Len(stack) THEN stack'[Len(stack')].ctx
    ELSE IF Len(stack') < Len(stack) THEN stack[Len(stack)].ctx
    ELSE lastGet'.ctx

\* C20: the module cache belongs to one context.  A step of get on context
\* A changes no other context's cache, object count or registrations; what
\* get returns on A, and what A's cache holds, was made in A; and the
\* object get(k) returned first on A is not the one it returned on B.
C20_CachePerContext ==
    /\ [](/\ lastGet.result.outcome = "returned"
               => lastGet.result.obj.ctx = lastGet.ctx
          /\ \A c \in Ctx :
               /\ \A n \in DOMAIN cache[c].own : cache[c].own[n].ctx = c
               /\ \A d \in Ctx \ {c}, k \in Resolvable :
                    first[c][k] # NoResult => first[c][k] # first[d][k])
    /\ [][\A d \in Ctx \ {StepContext} :
            /\ cache'[d] = cache[d]
            /\ nextObj'[d] = nextObj[d]
            /\ registered'[d] = registered[d]
            /\ first'[d] = first[d]]_vars

C20_Witness ==
    /\ \A c \in Ctx :
         /\ first[c]["ipc"].outcome = "returned"
         /\ K_ipc \in DOMAIN cache[c].own
         /\ cache[c].own[K_ipc] = first[c]["ipc"].obj
    /\ first[1]["ipc"].obj # first[2]["ipc"].obj
    /\ lastGet.afterFirst

====
